---- MODULE Spec2Model ----
(***************************************************************************)
(* Model of cc/expr.go (Expr.GetChildren, Prefix, Init.GetChildren, Walk,  *)
(* walk, Preorder, Postorder) and syntax/ast/cast_expr.go (CastExpr and    *)
(* its JSON codec).                                                        *)
(***************************************************************************)
EXTENDS Integers, Sequences, FiniteSets, TLC

VARIABLES root, heap, edges, pc, seen, stack, trace, gx, gout, gpc, cx, cdata, ctarget, cdepth, cpc

walkVars == <<root, heap, edges, pc, seen, stack, trace>>

childVars == <<gx, gout, gpc>>

codecVars == <<cx, cdata, ctarget, cdepth, cpc>>

vars == <<root, heap, edges, pc, seen, stack, trace, gx, gout, gpc, cx, cdata, ctarget, cdepth, cpc>>

----------------------------------------------------------------------------
(* Bounds *)

\* number of slot assignments the graph builder performs
MaxEdges == 2

\* longest list held in a list-valued slot (List, Texts, Braced, ...)
MaxList == 2

\* deepest recursion of walk the model follows
MaxDepth == 12

----------------------------------------------------------------------------
(* Syntax values: an interface value is nil, a typed nil pointer (id 0),   *)
(* or a pointer to an allocated node (id > 0).                             *)

Nil == [k |-> "nil", id |-> 0]

TNil(kind) == [k |-> kind, id |-> 0]

Ptr(kind, n) == [k |-> kind, id |-> n]

LiteralKinds == {"EmptyLiteral", "BooleanLiteral", "IntegerLiteral", "CharLiteral", "RealLiteral", "StringLiteral", "SymbolLiteral", "LanguageKeyword"}

CompositeKinds == {"Prog", "Decl", "Init", "Type", "Expr", "Stmt", "Label"}

\* the kinds the type switch of walk has a case for
WalkKinds == LiteralKinds \cup CompositeKinds

\* the kinds whose typed nil Walk puts in seen
SeededKinds == {"EmptyLiteral", "IntegerLiteral", "CharLiteral", "RealLiteral", "StringLiteral", "SymbolLiteral", "LanguageKeyword", "Decl", "Init", "Type", "Expr", "Stmt", "Label"}

AllKinds == WalkKinds \cup {"Prefix"}

E1 == Ptr("Expr", 1)

E2 == Ptr("Expr", 2)

T1 == Ptr("Type", 3)

I1 == Ptr("Init", 4)

P1 == Ptr("Prefix", 5)

S1 == Ptr("SymbolLiteral", 6)

D1 == Ptr("Decl", 7)

St1 == Ptr("Stmt", 8)

L1 == Ptr("Label", 9)

Pr1 == Ptr("Prog", 10)

Nodes == {E1, E2, T1, I1, P1, S1, D1, St1, L1, Pr1}

IsNode(x) == x.id > 0

\* operator tag carried by each Expr of the universe
OpOf(x) == IF x = E1 THEN "Add" ELSE "Arrow"

----------------------------------------------------------------------------
(* Node records: the zero value of each struct, and the values each slot   *)
(* can be given.                                                           *)

Fresh(x) ==
  CASE x.k = "Expr" -> [Op |-> OpOf(x), Left |-> TNil("Expr"), Right |-> TNil("Expr"), List |-> <<>>, LaunchParams |-> <<>>, Text |-> Nil, Texts |-> <<>>, Type |-> TNil("Type"), Init |-> TNil("Init"), Block |-> <<>>]
    [] x.k = "Init" -> [Prefix |-> <<>>, Expr |-> TNil("Expr"), Braced |-> <<>>]
    [] x.k = "Type" -> [Base |-> TNil("Type"), Decls |-> <<>>, Width |-> TNil("Expr")]
    [] x.k = "Decl" -> [Type |-> TNil("Type"), Init |-> TNil("Init"), Body |-> TNil("Stmt")]
    [] x.k = "Stmt" -> [Pre |-> TNil("Expr"), Expr |-> TNil("Expr"), Post |-> TNil("Expr"), Decl |-> TNil("Decl"), Body |-> TNil("Stmt"), Else |-> TNil("Stmt"), Text |-> Nil, Block |-> <<>>, Labels |-> <<>>]
    [] x.k = "Label" -> [Name |-> Nil, Expr |-> TNil("Expr")]
    [] x.k = "Prog" -> [Decls |-> <<>>]
    [] OTHER -> [Leaf |-> TRUE]

ExprRefs == {E1, E2}

TextRefs == {S1, TNil("SymbolLiteral"), TNil("BooleanLiteral")}

\* single-valued slots of each kind, with the values the builder may store
SingleSlots(kind) ==
  CASE kind = "Expr" -> {<<"Left", ExprRefs>>, <<"Right", ExprRefs>>, <<"Text", TextRefs>>, <<"Type", {T1}>>, <<"Init", {I1}>>}
    [] kind = "Init" -> {<<"Expr", ExprRefs>>}
    [] kind = "Type" -> {<<"Base", {T1}>>, <<"Width", ExprRefs>>}
    [] kind = "Decl" -> {<<"Type", {T1}>>, <<"Init", {I1}>>, <<"Body", {St1}>>}
    [] kind = "Stmt" -> {<<"Pre", ExprRefs>>, <<"Expr", ExprRefs>>, <<"Post", ExprRefs>>, <<"Decl", {D1}>>, <<"Body", {St1}>>, <<"Else", {St1}>>, <<"Text", {S1}>>}
    [] kind = "Label" -> {<<"Name", {S1}>>, <<"Expr", ExprRefs>>}
    [] OTHER -> {}

\* list-valued slots of each kind, with the elements the builder may append
ListSlots(kind) ==
  CASE kind = "Expr" -> {<<"List", ExprRefs \cup {TNil("Expr")}>>, <<"LaunchParams", ExprRefs>>, <<"Texts", {S1}>>, <<"Block", {St1}>>}
    [] kind = "Init" -> {<<"Prefix", {P1}>>, <<"Braced", {I1}>>}
    [] kind = "Type" -> {<<"Decls", {D1}>>}
    [] kind = "Stmt" -> {<<"Block", {St1}>>, <<"Labels", {L1}>>}
    [] kind = "Prog" -> {<<"Decls", {D1}>>}
    [] OTHER -> {}

\* the heap after a pointer to v has been stored: v is allocated if new
Alloc(h, v) == IF IsNode(v) /\ v \notin DOMAIN h THEN h @@ (v :> Fresh(v)) ELSE h

----------------------------------------------------------------------------
(* walk: the children of x in the order the type switch descends into them *)

WalkSlots(x) ==
  LET h == heap[x] IN
  CASE x.k = "Prog" -> h.Decls
    [] x.k = "Decl" -> <<h.Type, h.Init, h.Body>>
    [] x.k = "Init" -> h.Braced \o <<h.Expr>>
    [] x.k = "Type" -> <<h.Base>> \o h.Decls \o <<h.Width>>
    [] x.k = "Expr" -> <<h.Left, h.Text, h.Right>> \o h.LaunchParams \o h.Texts \o h.List \o <<h.Type, h.Init>> \o h.Block
    [] x.k = "Stmt" -> <<h.Pre, h.Expr, h.Post, h.Decl, h.Body, h.Else, h.Text>> \o h.Block \o h.Labels
    [] x.k = "Label" -> <<h.Name, h.Expr>>
    [] OTHER -> <<>>

\* children still to be handed to walk by a frame; frame 0 is Walk itself
FrameChildren(fr) ==
  IF fr.x = Nil THEN <<root>>
  ELSE IF IsNode(fr.x) THEN WalkSlots(fr.x)
  ELSE <<>>

SeededSeen == {Nil} \cup {TNil(kd) : kd \in SeededKinds}

SeenHasAbsentOnly(s, x) == x \in s /\ ~IsNode(x)

SeenHas(s, x) == x \in s

MarkSeenDropped(s, x) == s

MarkSeen(s, x) == s \cup {x}

\* the type switch panics: no case for the kind, or a field read through a
\* nil pointer of a composite kind
SwitchPanics(x) == x.k \notin WalkKinds \/ (~IsNode(x) /\ x.k \in CompositeKinds)

BeforeEvent(x) == [ev |-> "before", x |-> x]

AfterEvent(x) == [ev |-> "after", x |-> x]

CallBefore(tr, x) == Append(tr, BeforeEvent(x))

CallAfterDropped(tr, x) == tr

CallAfter(tr, x) == Append(tr, AfterEvent(x))

Top == stack[Len(stack)]

Arg == FrameChildren(Top)[Top.i]

Advance(st) == [st EXCEPT ![Len(st)].i = @ + 1]

Pop(st) == SubSeq(st, 1, Len(st) - 1)

----------------------------------------------------------------------------
(* Actions *)

WalkIdle == root = Nil /\ heap = <<>> /\ edges = 0 /\ pc = "idle" /\ seen = {} /\ stack = <<>> /\ trace = <<>>

ChildIdle == gx = Nil /\ gout = <<>> /\ gpc = "idle"

CodecIdle == cx = Nil /\ cdata = Nil /\ ctarget = Nil /\ cdepth = 0 /\ cpc = "idle"

RootChoices == Nodes \cup {Nil} \cup {TNil(kd) : kd \in AllKinds}

Init ==
  /\ root \in RootChoices
  /\ heap = Alloc(<<>>, root)
  /\ edges = 0
  /\ pc = "build"
  /\ seen = {}
  /\ stack = <<>>
  /\ trace = <<>>
  /\ ChildIdle
  /\ CodecIdle

\* the builder stores v in a single-valued slot of an allocated node
SetSlot ==
  /\ pc = "build"
  /\ edges < MaxEdges
  /\ \E n \in DOMAIN heap : \E sl \in SingleSlots(n.k) : \E v \in sl[2] :
       /\ ~IsNode(heap[n][sl[1]])
       /\ heap[n][sl[1]] # v
       /\ heap' = [Alloc(heap, v) EXCEPT ![n][sl[1]] = v]
  /\ edges' = edges + 1
  /\ UNCHANGED <<root, pc, seen, stack, trace, childVars, codecVars>>

\* the builder appends v to a list-valued slot of an allocated node
AppendSlot ==
  /\ pc = "build"
  /\ edges < MaxEdges
  /\ \E n \in DOMAIN heap : \E sl \in ListSlots(n.k) : \E v \in sl[2] :
       /\ Len(heap[n][sl[1]]) < MaxList
       /\ heap' = [Alloc(heap, v) EXCEPT ![n][sl[1]] = Append(@, v)]
  /\ edges' = edges + 1
  /\ UNCHANGED <<root, pc, seen, stack, trace, childVars, codecVars>>

\* Walk(x, before, after): seed seen, call walk(x)
Walk ==
  /\ pc = "build"
  /\ pc' = "walk"
  /\ seen' = SeededSeen
  /\ stack' = <<[x |-> Nil, i |-> 1]>>
  /\ UNCHANGED <<root, heap, edges, trace, childVars, codecVars>>

\* walk(x): x == nil, return
WalkNil ==
  /\ pc = "walk"
  /\ Top.i <= Len(FrameChildren(Top))
  /\ Arg = Nil
  /\ stack' = Advance(stack)
  /\ UNCHANGED <<root, heap, edges, pc, seen, trace, childVars, codecVars>>

\* walk(x): seen[x], return
WalkSeen ==
  /\ pc = "walk"
  /\ Top.i <= Len(FrameChildren(Top))
  /\ Arg # Nil
  /\ SeenHas(seen, Arg)
  /\ stack' = Advance(stack)
  /\ UNCHANGED <<root, heap, edges, pc, seen, trace, childVars, codecVars>>

\* walk(x): seen[x] = true; before(x); enter the case of the type switch
WalkEnter ==
  /\ pc = "walk"
  /\ Top.i <= Len(FrameChildren(Top))
  /\ Arg # Nil
  /\ ~SeenHas(seen, Arg)
  /\ ~SwitchPanics(Arg)
  /\ Len(stack) < MaxDepth
  /\ seen' = MarkSeen(seen, Arg)
  /\ trace' = CallBefore(trace, Arg)
  /\ stack' = Append(stack, [x |-> Arg, i |-> 1])
  /\ UNCHANGED <<root, heap, edges, pc, childVars, codecVars>>

\* walk(x): seen[x] = true; before(x); the type switch panics
WalkPanic ==
  /\ pc = "walk"
  /\ Top.i <= Len(FrameChildren(Top))
  /\ Arg # Nil
  /\ ~SeenHas(seen, Arg)
  /\ SwitchPanics(Arg)
  /\ seen' = MarkSeen(seen, Arg)
  /\ trace' = CallBefore(trace, Arg)
  /\ pc' = "panic"
  /\ UNCHANGED <<root, heap, edges, stack, childVars, codecVars>>

\* walk(x): the case is finished; after(x); return to the caller
WalkExit ==
  /\ pc = "walk"
  /\ Len(stack) > 1
  /\ Top.i > Len(FrameChildren(Top))
  /\ trace' = CallAfter(trace, Top.x)
  /\ stack' = Advance(Pop(stack))
  /\ UNCHANGED <<root, heap, edges, pc, seen, childVars, codecVars>>

\* Walk returns
WalkReturn ==
  /\ pc = "walk"
  /\ Len(stack) = 1
  /\ Top.i > Len(FrameChildren(Top))
  /\ pc' = "done"
  /\ stack' = <<>>
  /\ UNCHANGED <<root, heap, edges, seen, trace, childVars, codecVars>>

WalkStep == WalkNil \/ WalkSeen \/ WalkEnter \/ WalkPanic \/ WalkExit \/ WalkReturn

Next == SetSlot \/ AppendSlot \/ Walk \/ WalkNil \/ WalkSeen \/ WalkEnter \/ WalkPanic \/ WalkExit \/ WalkReturn

Spec == Init /\ [][Next]_vars

----------------------------------------------------------------------------
(* Expr.GetChildren, Init.GetChildren, Prefix.GetChildren and              *)
(* CastExpr.GetChildren as pure functions of the node record.              *)

ExprOps == {"Add", "AddEq", "Addr", "And", "AndAnd", "AndEq", "Arrow", "Call", "CUDACall", "Cast", "CastInit", "Comma", "Cond", "Div", "DivEq", "Dot", "Eq", "EqEq", "Gt", "GtEq", "Index", "Indir", "Lsh", "LshEq", "LcuBrk", "Lt", "LtEq", "RcuBrk", "Minus", "Mod", "ModEq", "Mul", "MulEq", "Name", "Not", "NotEq", "Number", "Literal", "Offsetof", "Or", "OrEq", "OrOr", "Paren", "Plus", "PostDec", "PostInc", "PreDec", "PreInc", "Rsh", "RshEq", "SizeofExpr", "SizeofType", "String", "Sub", "SubEq", "Twid", "VaArg", "Xor", "XorEq", "LCuBrk", "RCuBrk"}

\* for _, elem := range x.List { if elem != nil { lst = append(lst, elem) } }
NonNilElems(list) == SelectSeq(list, IsNode)

\* the Text and Texts payloads appended before the switch on x.Op
TextChildren(x) == (IF x.Text # Nil THEN <<x.Text>> ELSE <<>>) \o x.Texts

DefaultChildren(x) ==
  (IF IsNode(x.Type) THEN <<x.Type>> ELSE <<>>) \o (IF IsNode(x.Left) THEN <<x.Left>> ELSE <<>>) \o (IF IsNode(x.Right) THEN <<x.Right>> ELSE <<>>) \o NonNilElems(x.List)

ArrowChildrenWithRight(x) == <<x.Left, x.Right>>

ArrowChildren(x) == <<x.Left>>

DotChildren(x) == <<x.Left>>

\* case Cond indexes x.List[0], x.List[1], x.List[2]
ExprGetChildrenPanics(x) == x.Op = "Cond" /\ Len(x.List) < 3

OpChildren(x) ==
  CASE x.Op = "Arrow" -> ArrowChildren(x)
    [] x.Op = "Call" -> <<x.Left>> \o NonNilElems(x.List)
    [] x.Op = "Comma" -> NonNilElems(x.List)
    [] x.Op = "Cond" -> <<x.List[1], x.List[2], x.List[3]>>
    [] x.Op = "Dot" -> DotChildren(x)
    [] x.Op = "Cast" -> <<x.Type>>
    [] x.Op = "CastInit" -> <<x.Type>>
    [] x.Op = "Index" -> <<x.Left, x.Right>>
    [] x.Op = "Offsetof" -> <<x.Type, x.Left>>
    [] x.Op = "Paren" -> <<x.Left>>
    [] x.Op = "PostDec" -> <<x.Left>>
    [] x.Op = "PostInc" -> <<x.Left>>
    [] x.Op = "VaArg" -> <<x.Left, x.Type>>
    [] OTHER -> DefaultChildren(x)

ExprGetChildren(x) == TextChildren(x) \o OpChildren(x)

InitGetChildren(x) == x.Prefix \o (IF IsNode(x.Expr) THEN <<x.Expr>> ELSE <<>>) \o x.Braced

PrefixGetChildren(x) == <<>>

CastExprGetChildren(x) == <<x.Type, x.Expr>>

\* longest operand list given to Expr.GetChildren
MaxArgs == 3

SeqsUpTo(S, n) == UNION {[1..m -> S] : m \in 0..n}

ExprInputs ==
  [Op : ExprOps, Left : {TNil("Expr"), E1}, Right : {TNil("Expr"), E2}, List : SeqsUpTo({TNil("Expr"), E1, E2}, MaxArgs), Text : {Nil, S1}, Texts : SeqsUpTo({S1}, MaxList), Type : {TNil("Type"), T1}]

CastExprInputs == [Op : {"CastExpr"}, Type : {TNil("Type"), T1}, Expr : {Nil, E1}]

InitChildren ==
  /\ gx \in ExprInputs \cup CastExprInputs
  /\ gout = <<>>
  /\ gpc = "call"
  /\ WalkIdle
  /\ CodecIdle

\* x.GetChildren() on an Expr returns lst
ExprGetChildrenReturn ==
  /\ gpc = "call"
  /\ gx.Op \in ExprOps
  /\ ~ExprGetChildrenPanics(gx)
  /\ gout' = ExprGetChildren(gx)
  /\ gpc' = "returned"
  /\ UNCHANGED <<gx, walkVars, codecVars>>

\* x.GetChildren() on a Cond whose List has fewer than three elements
ExprGetChildrenPanic ==
  /\ gpc = "call"
  /\ gx.Op \in ExprOps
  /\ ExprGetChildrenPanics(gx)
  /\ gpc' = "panic"
  /\ UNCHANGED <<gx, gout, walkVars, codecVars>>

\* x.GetChildren() on a CastExpr
CastExprGetChildrenReturn ==
  /\ gpc = "call"
  /\ gx.Op = "CastExpr"
  /\ gout' = CastExprGetChildren(gx)
  /\ gpc' = "returned"
  /\ UNCHANGED <<gx, walkVars, codecVars>>

NextChildren == ExprGetChildrenReturn \/ ExprGetChildrenPanic \/ CastExprGetChildrenReturn

SpecChildren == InitChildren /\ [][NextChildren]_vars

----------------------------------------------------------------------------
(* CastExpr.MarshalJSON and CastExpr.UnmarshalJSON.  A JSON document is    *)
(* modelled by whether it is syntactically valid and by its members.       *)

\* deepest nesting of calls the goroutine stack holds before the runtime
\* stops the program with a stack overflow
MaxStack == 4

AssignOps == {"Eq", "AddEq"}

JNull == [json |-> "null"]

JString(str) == [json |-> "string", val |-> str]

JNumber(n) == [json |-> "number", val |-> n]

\* the zero value of the struct, the target a caller decodes into
ZeroCastExpr == [Kind |-> "", Id |-> 0, Op |-> "", Type |-> Nil, Expr |-> Nil]

\* a *Type naming a basic type, and an Expr naming a variable
NamedType(name) == [k |-> "Type", id |-> 1, name |-> name]

NameExpr(name) == [k |-> "NameExpr", id |-> 1, name |-> name]

CastExprNodes == [Kind : {"", "CastExpr"}, Id : {1, 2}, Op : AssignOps, Type : {Nil, NamedType("float"), NamedType("int")}, Expr : {Nil, NameExpr("x"), NameExpr("y")}]

\* json.Marshal(*x): one member per tagged field; a nil pointer or nil
\* interface is written as null
JsonMarshal(x) ==
  [valid |-> TRUE,
   members |-> [kind |-> JString(x.Kind), id |-> JNumber(x.Id), op |-> JString(x.Op),
                type |-> IF x.Type = Nil THEN JNull ELSE JString(x.Type.name),
                expr |-> IF x.Expr = Nil THEN JNull ELSE JString(x.Expr.name)]]

\* documents that did not come from MarshalJSON
ForeignDocs ==
  { [valid |-> TRUE, members |-> [kind |-> JString("BogusExpr"), id |-> JNumber(1), op |-> JString("Eq"), type |-> JNull, expr |-> JNull]],
    [valid |-> TRUE, members |-> [kind |-> JString("CastExpr")]],
    [valid |-> FALSE, members |-> [kind |-> JString("CastExpr")]] }

InitCodec ==
  /\ cx \in CastExprNodes \cup {Nil}
  /\ cdata = Nil
  /\ ctarget = ZeroCastExpr
  /\ cdepth = 0
  /\ cpc = "start"
  /\ WalkIdle
  /\ ChildIdle

\* x.MarshalJSON(), x != nil: x.Kind = "CastExpr"; return json.Marshal(*x)
MarshalJSON ==
  /\ cpc = "start"
  /\ cx # Nil
  /\ cx' = [cx EXCEPT !.Kind = "CastExpr"]
  /\ cdata' = JsonMarshal(cx')
  /\ cpc' = "encoded"
  /\ UNCHANGED <<ctarget, cdepth, walkVars, childVars>>

\* x.MarshalJSON(), x == nil: *x dereferences the nil pointer
MarshalJSONNil ==
  /\ cpc = "start"
  /\ cx = Nil
  /\ cpc' = "panic"
  /\ UNCHANGED <<cx, cdata, ctarget, cdepth, walkVars, childVars>>

\* the caller holds a document produced elsewhere
ReceiveDoc ==
  /\ cpc = "start"
  /\ cdata' \in ForeignDocs
  /\ cpc' = "received"
  /\ UNCHANGED <<cx, ctarget, cdepth, walkVars, childVars>>

\* the caller calls target.UnmarshalJSON(data)
UnmarshalJSON ==
  /\ cpc \in {"encoded", "received"}
  /\ cdepth' = 1
  /\ cpc' = "decoding"
  /\ UNCHANGED <<cx, cdata, ctarget, walkVars, childVars>>

\* json.Unmarshal(data, x): checkValid(data) fails, the error is returned
UnmarshalSyntaxError ==
  /\ cpc = "decoding"
  /\ ~cdata.valid
  /\ cdepth' = 0
  /\ cpc' = "error"
  /\ UNCHANGED <<cx, cdata, ctarget, walkVars, childVars>>

\* json.Unmarshal(data, x): x is a json.Unmarshaler, so the decoder calls
\* x.UnmarshalJSON(data) again
UnmarshalRecurse ==
  /\ cpc = "decoding"
  /\ cdata.valid
  /\ cdepth < MaxStack
  /\ cdepth' = cdepth + 1
  /\ UNCHANGED <<cx, cdata, ctarget, cpc, walkVars, childVars>>

\* the goroutine stack is exhausted: fatal error, the program is stopped
UnmarshalStackOverflow ==
  /\ cpc = "decoding"
  /\ cdata.valid
  /\ cdepth = MaxStack
  /\ cpc' = "crashed"
  /\ UNCHANGED <<cx, cdata, ctarget, cdepth, walkVars, childVars>>

NextCodec == MarshalJSON \/ MarshalJSONNil \/ ReceiveDoc \/ UnmarshalJSON \/ UnmarshalSyntaxError \/ UnmarshalRecurse \/ UnmarshalStackOverflow

SpecCodec == InitCodec /\ [][NextCodec]_vars

----------------------------------------------------------------------------
(* Preorder and Postorder, and what GetChildren yields for a heap node.    *)

CallsOf(tr, which) ==
  LET sel == SelectSeq(tr, LAMBDA e : e.ev = which)
  IN [i \in 1..Len(sel) |-> sel[i].x]

\* Preorder(x, f) = Walk(x, f, func(Syntax) {}): the arguments f is called with
Preorder(tr) == CallsOf(tr, "before")

\* Postorder(x, f) = Walk(x, func(Syntax) {}, f)
Postorder(tr) == CallsOf(tr, "after")

Range(sq) == {sq[i] : i \in 1..Len(sq)}

NoDup(sq) == \A i, j \in 1..Len(sq) : i # j => sq[i] # sq[j]

\* children of the composite kinds whose GetChildren is outside expr.go:
\* the populated slots, in slot order
OtherGetChildren(n) == SelectSeq(WalkSlots(n), IsNode)

NodeGetChildren(n) ==
  CASE n.k = "Expr" -> ExprGetChildren(heap[n])
    [] n.k = "Init" -> InitGetChildren(heap[n])
    [] n.k = "Prefix" -> PrefixGetChildren(heap[n])
    [] n.k \in LiteralKinds -> <<>>
    [] OTHER -> OtherGetChildren(n)

RECURSIVE ChildClosure(_)
ChildClosure(S) ==
  LET nxt == S \cup UNION {{c \in Range(NodeGetChildren(n)) : IsNode(c)} : n \in S}
  IN IF nxt = S THEN S ELSE ChildClosure(nxt)

\* the nodes reachable from root by repeatedly following GetChildren
GetChildrenReachable == ChildClosure({root} \cap DOMAIN heap)

RECURSIVE SlotClosure(_)
SlotClosure(S) ==
  LET nxt == S \cup UNION {Range(WalkSlots(n)) \ SeededSeen : n \in S \cap DOMAIN heap}
  IN IF nxt = S THEN S ELSE SlotClosure(nxt)

\* the values walk is handed, directly or indirectly, that are not seeded
WalkReachable == SlotClosure({root} \ SeededSeen)

\* the distinct values the graph under root holds
GraphValues == (DOMAIN heap \cup WalkReachable) \ SeededSeen

Fail == <<[k |-> "fail", id |-> 0 - 1]>>

\* the nodes entered and not yet exited after tr, innermost last; Fail if an
\* exit does not match the innermost open node
RECURSIVE OpenNodes(_)
OpenNodes(tr) ==
  IF tr = <<>> THEN <<>>
  ELSE LET prev == OpenNodes(SubSeq(tr, 1, Len(tr) - 1))
           e == tr[Len(tr)]
       IN IF prev = Fail THEN Fail
          ELSE IF e.ev = "before" THEN Append(prev, e.x)
          ELSE IF prev # <<>> /\ prev[Len(prev)] = e.x THEN SubSeq(prev, 1, Len(prev) - 1)
          ELSE Fail

PosOf(tr, e) == CHOOSE i \in 1..Len(tr) : tr[i] = e

HasEvent(tr, e) == \E i \in 1..Len(tr) : tr[i] = e

InDegree(n) ==
  (IF root = n THEN 1 ELSE 0) + Cardinality({<<m, i>> \in (Range(Preorder(trace)) \cap DOMAIN heap) \X (1..30) : i <= Len(WalkSlots(m)) /\ WalkSlots(m)[i] = n})

OnCycle(n) ==
  \/ n \in Range(WalkSlots(n))
  \/ \E m \in DOMAIN heap \ {n} : m \in Range(WalkSlots(n)) /\ n \in Range(WalkSlots(m))

FairSpec == Init /\ [][Next]_vars /\ WF_vars(WalkStep)

----------------------------------------------------------------------------
(* Properties *)

\* C1: Preorder and Postorder (the before and the after callback of Walk)
\* call f at most once per node at every moment; the nodes f was called for
\* are exactly the ones walk marked; once Walk has returned both callbacks
\* were called exactly once for every node reachable from root.
SingleVisit ==
  /\ NoDup(Preorder(trace))
  /\ NoDup(Postorder(trace))
  /\ Range(Preorder(trace)) = seen \ SeededSeen
  /\ Range(Postorder(trace)) \subseteq Range(Preorder(trace))
  /\ pc = "done" => /\ Range(Preorder(trace)) = WalkReachable
                    /\ Range(Postorder(trace)) = WalkReachable

\* a walk has returned over a graph with a node that is handed to walk twice
SharedNodeWalked == pc = "done" /\ \E n \in Range(Preorder(trace)) : InDegree(n) >= 2

\* C4: the trace of before/after calls is well bracketed at every moment
\* (an after always closes the innermost open before); no node is entered or
\* exited twice; when Walk returns every entered node has been exited.
EnterExitPairing ==
  /\ OpenNodes(trace) # Fail
  /\ NoDup(Preorder(trace))
  /\ NoDup(Postorder(trace))
  /\ \A n \in Range(Postorder(trace)) : HasEvent(trace, BeforeEvent(n)) /\ PosOf(trace, BeforeEvent(n)) < PosOf(trace, AfterEvent(n))
  /\ pc = "done" => /\ OpenNodes(trace) = <<>>
                    /\ Range(Postorder(trace)) = Range(Preorder(trace))

\* a walk has returned after nesting three nodes inside one another
NestedWalked == pc = "done" /\ \E i \in 1..Len(trace) : i + 2 <= Len(trace) /\ trace[i].ev = "before" /\ trace[i + 1].ev = "before" /\ trace[i + 2].ev = "before"

\* C5: a started walk always ends (it returns, or the type switch panics on
\* a root it has no case for); the number of descents never exceeds the
\* number of distinct values in the graph, and the recursion never gets
\* deeper than that.
WalkTerminates ==
  /\ [](Len(Preorder(trace)) <= Cardinality(GraphValues))
  /\ [](Len(stack) <= Cardinality(GraphValues) + 1)
  /\ [](pc = "panic" => SwitchPanics(root))
  /\ (pc = "walk") ~> (pc \in {"done", "panic"})

\* a walk has returned over a graph in which a node is its own descendant
CycleWalked == pc = "done" /\ \E n \in Range(Preorder(trace)) \cap DOMAIN heap : OnCycle(n)

\* C2: when Walk returns, every node reachable from root through
\* GetChildren has been entered.
Coverage == pc = "done" => GetChildrenReachable \subseteq Range(Preorder(trace))

\* C3: the children of a visited node that are first entered during its
\* visit are entered in the order GetChildren returns them.
ChildOrder ==
  pc = "done" =>
    \A n \in Range(Preorder(trace)) \cap DOMAIN heap :
      LET ch == NodeGetChildren(n)
          inside(c) == /\ IsNode(c)
                       /\ HasEvent(trace, BeforeEvent(c))
                       /\ PosOf(trace, BeforeEvent(n)) < PosOf(trace, BeforeEvent(c))
                       /\ PosOf(trace, BeforeEvent(c)) < PosOf(trace, AfterEvent(n))
      IN \A i, j \in 1..Len(ch) :
           (i < j /\ ch[i] # ch[j] /\ inside(ch[i]) /\ inside(ch[j]) /\ (\A m \in 1..(j - 1) : ch[m] # ch[j]))
             => PosOf(trace, BeforeEvent(ch[i])) < PosOf(trace, BeforeEvent(ch[j]))

\* C10: before and after are never called with an absent (nil pointer) value
\* of a kind the type switch of walk has a case for.
AbsentIgnored == \A i \in 1..Len(trace) : trace[i].x.k \in WalkKinds => IsNode(trace[i].x)

\* C6: no sequence returned by Expr.GetChildren or CastExpr.GetChildren
\* holds an absent (nil) element.
NoNilChildren == gpc = "returned" => \A i \in 1..Len(gout) : IsNode(gout[i])

\* C7: for Arrow and Dot, GetChildren returns exactly one child, the left
\* operand.
ArrowDotOnlyLeft == (gpc = "returned" /\ gx.Op \in {"Arrow", "Dot"}) => gout = <<gx.Left>>

\* C7 (amended): for Arrow and Dot, GetChildren returns the Text payload when
\* it is populated, then the Texts payloads, then exactly one operand entry,
\* the Left slot; Right and Type are never among the children.
ArrowDotTextThenLeft ==
  (gpc = "returned" /\ gx.Op \in {"Arrow", "Dot"}) =>
    LET np == (IF gx.Text # Nil THEN 1 ELSE 0) + Len(gx.Texts)
    IN /\ Len(gout) = np + 1
       /\ gout[np + 1] = gx.Left
       /\ gx.Text # Nil => gout[1] = gx.Text
       /\ \A i \in 1..Len(gx.Texts) : gout[np - Len(gx.Texts) + i] = gx.Texts[i]
       /\ IsNode(gx.Right) => gx.Right \notin Range(gout)
       /\ IsNode(gx.Type) => gx.Type \notin Range(gout)

\* GetChildren has returned for an Arrow or Dot with member name, left
\* operand and a right operand that must not be listed
ArrowWithTextReturned == gpc = "returned" /\ gx.Op \in {"Arrow", "Dot"} /\ gx.Text # Nil /\ IsNode(gx.Left) /\ IsNode(gx.Right) /\ Len(gout) = 2

\* C8: decoding what MarshalJSON produced ends with a decoded node of Kind
\* "CastExpr" whose Op, Type and Expr equal the original's.
CodecRoundTrip ==
  (cpc \in {"decoded", "error", "crashed"} /\ cx # Nil /\ cdata = JsonMarshal(cx)) =>
    /\ cpc = "decoded"
    /\ ctarget.Kind = "CastExpr"
    /\ ctarget.Op = cx.Op
    /\ ctarget.Type = cx.Type
    /\ ctarget.Expr = cx.Expr

\* C9: decoding a document with an unrecognized kind, or with required
\* members missing, or that is malformed, ends by returning an error.
UnknownKindRejected == (cpc \in {"decoded", "error", "crashed"} /\ cdata \in ForeignDocs) => cpc = "error"

====
